---- MODULE Spec2Model ----
(***************************************************************************)
(* Model of patches_fv_asym_calc.py: the orchestrator run_processing, the  *)
(* Ray remote task process_pdb_file with its helpers add_hydrogens,        *)
(* run_immunopdb and calculate_features, and the temporary directory the   *)
(* tasks share.                                                            *)
(***************************************************************************)
EXTENDS Integers, Sequences, FiniteSets, TLC

\* ---------------------------------------------------------------- bounds
MaxFiles == 2
MaxRepeats == 2
NumNames == 2

\* ------------------------------------------------------------- constants
\* default of the pH parameter of process_pdb_file and add_hydrogens
DefaultPH == 7
\* default of the use_temp parameter (Python False, which is the integer 0)
DefaultUseTemp == 0

\* values the command line can give --pH (floats, modelled by integers)
PHValues == {0, 5, DefaultPH}

TaskIds == 1..MaxFiles

\* ----------------------------------------------------------- file system
\* Directory entries the input path can name or contain.
PdbEntries == {[stem |-> k, suffix |-> ".pdb"] : k \in 1..MaxFiles}
TxtEntry == [stem |-> 0, suffix |-> ".txt"]
Entries == PdbEntries \cup {TxtEntry}

\* The input path: a directory (holding a non-structure file and some
\* structure files), an existing file, or a path naming nothing.
InputPaths ==
    {[kind |-> "dir", entries |-> S \cup {TxtEntry}] : S \in SUBSET PdbEntries}
      \cup {[kind |-> "file", entries |-> {e}] : e \in {[stem |-> 1, suffix |-> ".pdb"], TxtEntry}}
      \cup {[kind |-> "missing", entries |-> {}]}

\* Temporary path names: tempfile draws tmp<random>.pdb for the repaired
\* copy and tmp<random>_immuno_output.pdb for the annotator output.
None == [ns |-> "none", id |-> 0]
FixNames == {[ns |-> "fix", id |-> n] : n \in 1..NumNames}
ImmNames == {[ns |-> "imm", id |-> n] : n \in 1..NumNames}
TempNames == FixNames \cup ImmNames

\* fixed_pdb_path.replace(".pdb", "_immuno_output.pdb")
DerivedName(fixed) == [ns |-> "imm", id |-> fixed.id]

\* Who created the file that currently exists under a name.
NoOwner == [task |-> 0, iter |-> 0]
Owner(t, i) == [task |-> t, iter |-> i]

\* Python truthiness of the value bound to use_temp, and of a path or None.
Truthy(v) == v # 0
IsPath(p) == p # None

VARIABLES
    \* run_processing: arguments
    input_path, repeats, pH, use_ray_wait,
    \* run_processing: locals and effects
    opc, pdb_files, tasks, results, fatal_error,
    output_file, printed, critical_logged, exit_code,
    \* process_pdb_file, one per submitted task
    tpc, targs, iter, ck, fixed_pdb_path, immuno_output, all_results,
    texc, trace, hydrogens_pH,
    \* locals of add_hydrogens and run_immunopdb while a task is inside them
    fix_name, immuno_output_file,
    \* the temporary directory
    disk

ovars == <<input_path, repeats, pH, use_ray_wait, opc, pdb_files, tasks,
           results, fatal_error, output_file, printed, critical_logged,
           exit_code>>
tvars == <<tpc, targs, iter, ck, fixed_pdb_path, immuno_output, all_results,
           texc, trace, hydrogens_pH, fix_name, immuno_output_file>>
vars == <<ovars, tvars, disk>>

NoArgs == [pdb_file_path |-> TxtEntry, repeats |-> 0,
           use_temp |-> DefaultUseTemp, pH |-> DefaultPH]

Init ==
    /\ input_path \in InputPaths
    /\ repeats \in 1..MaxRepeats
    /\ pH \in PHValues
    /\ use_ray_wait \in BOOLEAN
    /\ opc = "resolve"
    /\ pdb_files = <<>>
    /\ tasks = <<>>
    /\ results = <<>>
    /\ fatal_error = "none"
    /\ output_file = "absent"
    /\ printed = "nothing"
    /\ critical_logged = FALSE
    /\ exit_code = -1
    /\ tpc = [t \in TaskIds |-> "unsubmitted"]
    /\ targs = [t \in TaskIds |-> NoArgs]
    /\ iter = [t \in TaskIds |-> 0]
    /\ ck = [t \in TaskIds |-> 0]
    /\ fixed_pdb_path = [t \in TaskIds |-> None]
    /\ immuno_output = [t \in TaskIds |-> None]
    /\ all_results = [t \in TaskIds |-> <<>>]
    /\ texc = [t \in TaskIds |-> "none"]
    /\ trace = [t \in TaskIds |-> <<>>]
    /\ hydrogens_pH = [t \in TaskIds |-> -1]
    /\ fix_name = [t \in TaskIds |-> None]
    /\ immuno_output_file = [t \in TaskIds |-> None]
    /\ disk = [n \in TempNames |-> NoOwner]

\* ------------------------------------------------------------ helpers
\* All orderings of a finite set as sequences: the enumeration order of
\* Path.glob is not specified.
Orderings(S) ==
    {s \in [1..Cardinality(S) -> S] : \A i, j \in 1..Cardinality(S) : i # j => s[i] # s[j]}

\* get_pdb_files without the test of the suffix of a single file.
get_pdb_files_AnyFile(p) ==
    IF p.kind = "dir"
    THEN Orderings({e \in p.entries : e.suffix = ".pdb"})
    ELSE IF p.kind = "file"
         THEN {<<CHOOSE e \in p.entries : TRUE>>}
         ELSE {}

\* get_pdb_files: the list it returns, or no list when it raises ValueError.
get_pdb_files(p) ==
    IF p.kind = "dir"
    THEN Orderings({e \in p.entries : e.suffix = ".pdb"})
    ELSE IF p.kind = "file" /\ (\E e \in p.entries : e.suffix = ".pdb")
         THEN {<<CHOOSE e \in p.entries : TRUE>>}
         ELSE {}

\* Binding of the positional arguments of process_pdb_file.remote(...) to the
\* parameters (pdb_file_path, repeats=1, use_temp=False, pH=7.0).
BindArgs(positional) ==
    [pdb_file_path |-> positional[1],
     repeats |-> IF Len(positional) >= 2 THEN positional[2] ELSE 1,
     use_temp |-> IF Len(positional) >= 3 THEN positional[3] ELSE DefaultUseTemp,
     pH |-> IF Len(positional) >= 4 THEN positional[4] ELSE DefaultPH]

\* The positional argument list run_processing builds for one file.
RemoteArgs(pdb) == <<pdb, repeats, pH>>

\* The value a finished task yields: {pdb_file_path: all_results}.
Record(t) == (targs[t].pdb_file_path :> all_results[t])

\* ray.wait handing back the pending list without its first element whichever
\* task it reported done.
Remove_Head(s, k) == Tail(s)

\* The remaining list ray.wait returns: the pending list without the task it
\* reports done.
Remove(s, k) == [j \in 1..(Len(s) - 1) |-> IF j < k THEN s[j] ELSE s[j + 1]]

Finished(t) == tpc[t] \in {"returned", "raised"}

\* ------------------------------------------------------- run_processing
\* pdb_files = get_pdb_files(input_path); a ValueError is not caught.
Resolve ==
    /\ opc = "resolve"
    /\ IF get_pdb_files(input_path) = {}
       THEN /\ opc' = "uncaught"
            /\ fatal_error' = "ValueError"
            /\ exit_code' = 1
            /\ UNCHANGED pdb_files
       ELSE /\ pdb_files' \in get_pdb_files(input_path)
            /\ opc' = "submit"
            /\ UNCHANGED <<fatal_error, exit_code>>
    /\ UNCHANGED <<input_path, repeats, pH, use_ray_wait, tasks, results,
                   output_file, printed, critical_logged, tvars, disk>>

\* tasks = [process_pdb_file.remote(str(pdb), repeats, pH) for pdb in pdb_files]
Submit ==
    /\ opc = "submit"
    /\ tasks' = [k \in 1..Len(pdb_files) |-> k]
    /\ targs' = [t \in TaskIds |->
                   IF t <= Len(pdb_files) THEN BindArgs(RemoteArgs(pdb_files[t]))
                   ELSE targs[t]]
    /\ tpc' = [t \in TaskIds |-> IF t <= Len(pdb_files) THEN "config" ELSE tpc[t]]
    /\ opc' = "collect"
    /\ UNCHANGED <<input_path, repeats, pH, use_ray_wait, pdb_files, results,
                   fatal_error, output_file, printed, critical_logged, exit_code,
                   iter, ck, fixed_pdb_path, immuno_output, all_results, texc,
                   trace, hydrogens_pH, fix_name, immuno_output_file, disk>>

\* results = ray.get(tasks)
CollectAll ==
    /\ opc = "collect"
    /\ ~use_ray_wait
    /\ \/ /\ \A k \in 1..Len(tasks) : tpc[tasks[k]] = "returned"
          /\ results' = [k \in 1..Len(tasks) |-> Record(tasks[k])]
          /\ opc' = "dump"
          /\ UNCHANGED fatal_error
       \/ /\ \E k \in 1..Len(tasks) : tpc[tasks[k]] = "raised"
          /\ fatal_error' = "RayTaskError"
          /\ opc' = "fatal"
          /\ UNCHANGED results
    /\ UNCHANGED <<input_path, repeats, pH, use_ray_wait, pdb_files, tasks,
                   output_file, printed, critical_logged, exit_code, tvars, disk>>

\* done, tasks = ray.wait(tasks, num_returns=1); results.extend(ray.get(done))
CollectNext ==
    /\ opc = "collect"
    /\ use_ray_wait
    /\ tasks # <<>>
    /\ \E k \in 1..Len(tasks) :
         /\ Finished(tasks[k])
         /\ tasks' = Remove(tasks, k)
         /\ IF tpc[tasks[k]] = "returned"
            THEN /\ results' = Append(results, Record(tasks[k]))
                 /\ UNCHANGED <<fatal_error, opc>>
            ELSE /\ fatal_error' = "RayTaskError"
                 /\ opc' = "fatal"
                 /\ UNCHANGED results
    /\ UNCHANGED <<input_path, repeats, pH, use_ray_wait, pdb_files,
                   output_file, printed, critical_logged, exit_code, tvars, disk>>

\* The wait loop left while tasks are still pending.
CollectDone_Early ==
    /\ opc = "collect"
    /\ use_ray_wait
    /\ opc' = "dump"
    /\ UNCHANGED <<input_path, repeats, pH, use_ray_wait, pdb_files, tasks,
                   results, fatal_error, output_file, printed, critical_logged,
                   exit_code, tvars, disk>>

\* while tasks: the loop ends when no task is pending.
CollectDone ==
    /\ opc = "collect"
    /\ use_ray_wait
    /\ tasks = <<>>
    /\ opc' = "dump"
    /\ UNCHANGED <<input_path, repeats, pH, use_ray_wait, pdb_files, tasks,
                   results, fatal_error, output_file, printed, critical_logged,
                   exit_code, tvars, disk>>

\* with open(output_file, "w") as f: json.dump(results, f, indent=4)
Dump ==
    /\ opc = "dump"
    /\ \/ /\ output_file' = "written"
          /\ printed' = "complete"
          /\ opc' = "exit"
          /\ exit_code' = 0
          /\ UNCHANGED fatal_error
       \/ /\ output_file' \in {output_file, "partial"}
          /\ fatal_error' = "SerializationError"
          /\ opc' = "fatal"
          /\ UNCHANGED <<printed, exit_code>>
    /\ UNCHANGED <<input_path, repeats, pH, use_ray_wait, pdb_files, tasks,
                   results, critical_logged, tvars, disk>>

\* The fatal handler ending the process with exit code 0.
Fatal_ExitZero ==
    /\ opc = "fatal"
    /\ printed' = "error"
    /\ critical_logged' = TRUE
    /\ exit_code' = 0
    /\ opc' = "exit"
    /\ UNCHANGED <<input_path, repeats, pH, use_ray_wait, pdb_files, tasks,
                   results, fatal_error, output_file, tvars, disk>>

\* except Exception as fatal_error: print, logging.critical, exit(1)
Fatal ==
    /\ opc = "fatal"
    /\ printed' = "error"
    /\ critical_logged' = TRUE
    /\ exit_code' = 1
    /\ opc' = "exit"
    /\ UNCHANGED <<input_path, repeats, pH, use_ray_wait, pdb_files, tasks,
                   results, fatal_error, output_file, tvars, disk>>

\* ----------------------------------------------------- process_pdb_file
\* defaults.system_config.update_from_json('../default_config.json'), before
\* the loop and outside its try block.
LoadConfig(t) ==
    /\ tpc[t] = "config"
    /\ \/ /\ tpc' = [tpc EXCEPT ![t] = "repair"]
          /\ iter' = [iter EXCEPT ![t] = 1]
          /\ UNCHANGED texc
       \/ /\ tpc' = [tpc EXCEPT ![t] = "raised"]
          /\ texc' = [texc EXCEPT ![t] = "ConfigError"]
          /\ UNCHANGED iter
    /\ UNCHANGED <<ovars, fix_name, immuno_output_file, targs, ck, fixed_pdb_path, immuno_output,
                   all_results, trace, hydrogens_pH, disk>>

\* The names tempfile.NamedTemporaryFile can still create (O_EXCL).
FreeNames(names) == {n \in names : disk[n] = NoOwner}

\* Entering the finally block of the current iteration.
ToCleanup(t) ==
    /\ tpc' = [tpc EXCEPT ![t] = "exists"]
    /\ ck' = [ck EXCEPT ![t] = 1]

\* add_hydrogens, lines 40-41: a fresh temporary file is created and closed;
\* the repair itself follows in its own step.
AddHydrogens(t) ==
    /\ tpc[t] = "repair"
    /\ iter[t] <= targs[t].repeats
    /\ hydrogens_pH' = [hydrogens_pH EXCEPT ![t] = targs[t].pH]
    /\ IF FreeNames(FixNames) = {}
       THEN \* NamedTemporaryFile finds no usable name and raises
            /\ trace' = [trace EXCEPT ![t] = Append(@, "repair_raised")]
            /\ ToCleanup(t)
            /\ UNCHANGED <<fix_name, disk>>
       ELSE \E name \in FreeNames(FixNames) :
              /\ disk' = [disk EXCEPT ![name] = Owner(t, iter[t])]
              /\ fix_name' = [fix_name EXCEPT ![t] = name]
              /\ tpc' = [tpc EXCEPT ![t] = "fixer"]
              /\ UNCHANGED <<trace, ck>>
    /\ UNCHANGED <<ovars, targs, iter, fixed_pdb_path, immuno_output,
                   immuno_output_file, all_results, texc>>

\* add_hydrogens, lines 43-49: PDBFixer loads and repairs the structure, then
\* open(fix_name, 'w') opens the file (creating it again if it has gone) and
\* PDBFile.writeFile writes it; the caller assigns the returned path to
\* fixed_pdb_path.
FixAndWrite(t) ==
    /\ tpc[t] = "fixer"
    /\ \/ \* PDBFixer and PDBFile.writeFile succeed
          /\ disk' = [disk EXCEPT ![fix_name[t]] = Owner(t, iter[t])]
          /\ fixed_pdb_path' = [fixed_pdb_path EXCEPT ![t] = fix_name[t]]
          /\ tpc' = [tpc EXCEPT ![t] = "annotate"]
          /\ UNCHANGED <<trace, ck>>
       \/ \* PDBFixer raises (lines 43-44), before the file is opened again
          /\ trace' = [trace EXCEPT ![t] = Append(@, "repair_raised")]
          /\ ToCleanup(t)
          /\ UNCHANGED <<fixed_pdb_path, disk>>
       \/ \* PDBFile.writeFile raises (line 47), after open() at line 46
          /\ disk' = [disk EXCEPT ![fix_name[t]] = Owner(t, iter[t])]
          /\ trace' = [trace EXCEPT ![t] = Append(@, "repair_raised")]
          /\ ToCleanup(t)
          /\ UNCHANGED fixed_pdb_path
    /\ fix_name' = [fix_name EXCEPT ![t] = None]
    /\ UNCHANGED <<ovars, targs, iter, immuno_output, immuno_output_file,
                   all_results, texc, hydrogens_pH>>

\* How subprocess.run of the annotator ends.
AnnotatorExit == {"zero", "nonzero", "spawn_failed"}

\* return immuno_output_file if result.returncode == 0 else None (and None
\* from the except branch when the child cannot be spawned), assigned to
\* immuno_output and tested by `if immuno_output:`.
AnnotatorResult(t, status) ==
    IF status = "zero"
    THEN /\ immuno_output' = [immuno_output EXCEPT ![t] = immuno_output_file[t]]
         /\ tpc' = [tpc EXCEPT ![t] = "features"]
         /\ UNCHANGED <<trace, ck>>
    ELSE /\ immuno_output' = [immuno_output EXCEPT ![t] = None]
         /\ trace' = [trace EXCEPT ![t] = Append(@, "annotator_failed")]
         /\ ToCleanup(t)

\* run_immunopdb, lines 69-74: the output path is a fresh temporary file
\* (created here) or the name derived from the repaired copy (not created).
RunImmunopdb(t) ==
    /\ tpc[t] = "annotate"
    /\ IF Truthy(targs[t].use_temp)
       THEN IF FreeNames(ImmNames) = {}
            THEN \* NamedTemporaryFile raises before the try block
                 /\ trace' = [trace EXCEPT ![t] = Append(@, "tempfile_raised")]
                 /\ ToCleanup(t)
                 /\ UNCHANGED <<immuno_output_file, disk>>
            ELSE \E name \in FreeNames(ImmNames) :
                   /\ disk' = [disk EXCEPT ![name] = Owner(t, iter[t])]
                   /\ immuno_output_file' = [immuno_output_file EXCEPT ![t] = name]
                   /\ tpc' = [tpc EXCEPT ![t] = "subprocess"]
                   /\ UNCHANGED <<trace, ck>>
       ELSE /\ immuno_output_file' =
                  [immuno_output_file EXCEPT ![t] = DerivedName(fixed_pdb_path[t])]
            /\ tpc' = [tpc EXCEPT ![t] = "subprocess"]
            /\ UNCHANGED <<trace, ck, disk>>
    /\ UNCHANGED <<ovars, targs, iter, fix_name, fixed_pdb_path, immuno_output,
                   all_results, texc, hydrogens_pH>>

\* The annotator child process, started by subprocess.run at line 78 and
\* still running, writes its output file (-o immuno_output_file).
AnnotatorWrites(t) ==
    /\ tpc[t] = "subprocess"
    /\ disk' = [disk EXCEPT ![immuno_output_file[t]] = Owner(t, iter[t])]
    /\ tpc' = [tpc EXCEPT ![t] = "child_wrote"]
    /\ UNCHANGED <<ovars, targs, iter, ck, fix_name, immuno_output_file,
                   fixed_pdb_path, immuno_output, all_results, texc, trace,
                   hydrogens_pH>>

\* run_immunopdb, lines 78-97: subprocess.run returns once the child has
\* exited, or raises when it could not be started (no child, nothing
\* written); the log is appended and only the exit status decides the value
\* returned, whether or not the output file is (still) on disk.
SubprocessRun(t) ==
    /\ tpc[t] \in {"subprocess", "child_wrote"}
    /\ \E status \in AnnotatorExit :
          /\ status = "spawn_failed" => tpc[t] = "subprocess"
          /\ AnnotatorResult(t, status)
    /\ immuno_output_file' = [immuno_output_file EXCEPT ![t] = None]
    /\ UNCHANGED <<ovars, targs, iter, fix_name, fixed_pdb_path, all_results,
                   texc, hydrogens_pH, disk>>

\* The feature mapping of one repeat, tagged with the iteration it comes from.
mol_feature(t) == [charge_asym |-> iter[t]]

\* mol_feature = calculate_features(immuno_output); all_results.append(mol_feature)
CalculateFeatures(t) ==
    /\ tpc[t] = "features"
    /\ \/ /\ all_results' = [all_results EXCEPT ![t] = Append(@, mol_feature(t))]
          /\ trace' = [trace EXCEPT ![t] = Append(@, "succeeded")]
       \/ /\ trace' = [trace EXCEPT ![t] = Append(@, "features_raised")]
          /\ UNCHANGED all_results
    /\ ToCleanup(t)
    /\ UNCHANGED <<ovars, fix_name, immuno_output_file, targs, iter, fixed_pdb_path, immuno_output, texc,
                   hydrogens_pH, disk>>

\* finally: for file in [fixed_pdb_path, immuno_output]
CleanupList(t) == <<fixed_pdb_path[t], immuno_output[t]>>

\* The loop variable `file` of the finally block.
File(t) == CleanupList(t)[ck[t]]

\* The repeat loop left after a repeat that did not succeed.
NextFile_StopOnFailure(t) ==
    IF ck[t] < Len(CleanupList(t))
    THEN /\ ck' = [ck EXCEPT ![t] = @ + 1]
         /\ tpc' = [tpc EXCEPT ![t] = "exists"]
         /\ UNCHANGED iter
    ELSE /\ ck' = [ck EXCEPT ![t] = 0]
         /\ tpc' = [tpc EXCEPT ![t] = "repair"]
         /\ iter' = [iter EXCEPT ![t] =
                       IF trace[t][iter[t]] = "succeeded" THEN @ + 1
                       ELSE targs[t].repeats + 1]

\* After one element of the cleanup list: the next element, or the next
\* iteration of the repeat loop.
NextFile(t) ==
    IF ck[t] < Len(CleanupList(t))
    THEN /\ ck' = [ck EXCEPT ![t] = @ + 1]
         /\ tpc' = [tpc EXCEPT ![t] = "exists"]
         /\ UNCHANGED iter
    ELSE /\ ck' = [ck EXCEPT ![t] = 0]
         /\ tpc' = [tpc EXCEPT ![t] = "repair"]
         /\ iter' = [iter EXCEPT ![t] = @ + 1]

\* if file and os.path.exists(file):
Exists(t) ==
    /\ tpc[t] = "exists"
    /\ IF IsPath(File(t)) /\ disk[File(t)] # NoOwner
       THEN /\ tpc' = [tpc EXCEPT ![t] = "remove"]
            /\ UNCHANGED <<ck, iter>>
       ELSE NextFile(t)
    /\ UNCHANGED <<ovars, fix_name, immuno_output_file, targs, fixed_pdb_path, immuno_output, all_results,
                   texc, trace, hydrogens_pH, disk>>

\* os.remove(file): FileNotFoundError when the file has gone since the test.
OsRemove(t) ==
    /\ tpc[t] = "remove"
    /\ IF disk[File(t)] # NoOwner
       THEN /\ disk' = [disk EXCEPT ![File(t)] = NoOwner]
            /\ NextFile(t)
            /\ UNCHANGED texc
       ELSE /\ tpc' = [tpc EXCEPT ![t] = "raised"]
            /\ texc' = [texc EXCEPT ![t] = "FileNotFoundError"]
            /\ UNCHANGED <<ck, iter, disk>>
    /\ UNCHANGED <<ovars, fix_name, immuno_output_file, targs, fixed_pdb_path, immuno_output, all_results,
                   trace, hydrogens_pH>>

\* return {pdb_file_path: all_results}
Return(t) ==
    /\ tpc[t] = "repair"
    /\ iter[t] > targs[t].repeats
    /\ tpc' = [tpc EXCEPT ![t] = "returned"]
    /\ UNCHANGED <<ovars, fix_name, immuno_output_file, targs, iter, ck, fixed_pdb_path, immuno_output,
                   all_results, texc, trace, hydrogens_pH, disk>>

\* ------------------------------------------------------- specification
Task(t) ==
    \/ LoadConfig(t)
    \/ AddHydrogens(t)
    \/ FixAndWrite(t)
    \/ RunImmunopdb(t)
    \/ AnnotatorWrites(t)
    \/ SubprocessRun(t)
    \/ CalculateFeatures(t)
    \/ Exists(t)
    \/ OsRemove(t)
    \/ Return(t)

Orchestrator ==
    \/ Resolve
    \/ Submit
    \/ CollectAll
    \/ CollectNext
    \/ CollectDone
    \/ Dump
    \/ Fatal

Next ==
    \/ Orchestrator
    \/ \E t \in TaskIds : Task(t)

Spec == Init /\ [][Next]_vars

\* Runs with --wait: the orchestrator collects with ray.wait only.
InitWait == Init /\ use_ray_wait

OrchestratorWait ==
    \/ Resolve
    \/ Submit
    \/ CollectNext
    \/ CollectDone
    \/ Dump
    \/ Fatal

NextWait ==
    \/ OrchestratorWait
    \/ \E t \in TaskIds : Task(t)

\* The remote tasks run on Ray workers and the driver runs run_processing:
\* each keeps taking its steps.
WaitSpec ==
    /\ InitWait
    /\ [][NextWait]_vars
    /\ WF_vars(OrchestratorWait)
    /\ \A t \in TaskIds : WF_vars(Task(t))

\* ------------------------------------------------------------ properties
Submitted == {t \in TaskIds : tpc[t] # "unsubmitted"}

\* C1: after a per-file task has returned, no temporary file allocated during
\* that task (the repaired copy, the annotator output) still exists on disk.
C1_NoTempFileRemains ==
    \A t \in TaskIds :
        tpc[t] = "returned" => \A n \in TempNames : disk[n].task # t

\* C2: whatever fails inside a per-file task, the task still returns a result
\* record and the run is not aborted by it.
C2_TaskFailuresDegradeGracefully ==
    /\ \A t \in TaskIds : tpc[t] # "raised"
    /\ fatal_error # "RayTaskError"

\* C3: every submitted task runs with the orchestrator's repeat count, repairs
\* at the orchestrator's pH, and its use_temp flag is the default rather than
\* a value taken from the pH.
C3_ArgumentsForwarded ==
    \A t \in Submitted :
        /\ targs[t].repeats = repeats
        /\ targs[t].pH = pH
        /\ hydrogens_pH[t] # -1 => hydrogens_pH[t] = pH
        /\ targs[t].use_temp = DefaultUseTemp

\* The repeats of a task in which repair, annotation and feature calculation
\* all succeeded, in repeat order, read off the recorded outcomes.
SucceededRepeats(t) ==
    SelectSeq([i \in 1..Len(trace[t]) |-> i], LAMBDA i : trace[t][i] = "succeeded")

\* C4: a task attempts all R repeats whatever the outcome of earlier repeats,
\* and returns a single-entry mapping from its file path to a list of length
\* 0..R holding exactly the repeats in which repair, annotation and feature
\* calculation all succeeded, in repeat order.
C4_AllRepeatsAttempted ==
    \A t \in Submitted :
        /\ Len(all_results[t]) = Len(SucceededRepeats(t))
        /\ \A k \in 1..Len(all_results[t]) :
               all_results[t][k].charge_asym = SucceededRepeats(t)[k]
        /\ Len(all_results[t]) <= targs[t].repeats
        /\ tpc[t] = "repair" => Len(trace[t]) = iter[t] - 1
        /\ tpc[t] = "returned" =>
               /\ Len(trace[t]) = targs[t].repeats
               /\ DOMAIN Record(t) = {targs[t].pdb_file_path}
               /\ Record(t)[targs[t].pdb_file_path] = all_results[t]

\* C4 witness: a returned task whose first repeat failed and whose second
\* repeat succeeded.
C4_Witness ==
    \E t \in TaskIds :
        /\ tpc[t] = "returned"
        /\ Len(trace[t]) = 2
        /\ trace[t][1] \in {"repair_raised", "annotator_failed", "features_raised"}
        /\ trace[t][2] = "succeeded"
        /\ Len(all_results[t]) = 1

\* Every invocation of the annotator by the task so far has failed (non-zero
\* exit status or failure to spawn): it failed in at least one repeat and in
\* no repeat did it exit with status zero. Repeats in which the annotator was
\* not started (the repair or the allocation of the output path raised) do not
\* count as invocations.
AnnotatorAlwaysFailed(t) ==
    /\ \E i \in 1..Len(trace[t]) : trace[t][i] = "annotator_failed"
    /\ \A i \in 1..Len(trace[t]) : trace[t][i] \notin {"succeeded", "features_raised"}

\* C5: the annotator invoker signals a failure by the absent-result value, and
\* a task whose annotator failed on every invocation collects nothing, lets no
\* exception escape and returns an empty list for its file.
C5_AnnotatorFailureIsAbsentResult ==
    \A t \in Submitted :
        /\ ( /\ tpc[t] \in {"exists", "remove"}
             /\ Len(trace[t]) = iter[t]
             /\ trace[t][iter[t]] = "annotator_failed" )
               => immuno_output[t] = None
        /\ AnnotatorAlwaysFailed(t) =>
               /\ all_results[t] = <<>>
               /\ tpc[t] # "raised"
               /\ texc[t] = "none"
               /\ tpc[t] = "returned" => Record(t) = (targs[t].pdb_file_path :> <<>>)

\* The keys of the collected records.
Keys(rs) == UNION {DOMAIN rs[k] : k \in 1..Len(rs)}

\* C6: when the output is written, results holds exactly one record per
\* submitted task, each with exactly one key, the keys being the distinct input
\* paths; both collection modes give the set of the tasks' records, and
\* block-once collection gives them in submission order.
C6_OneRecordPerFile ==
    output_file = "written" =>
        /\ Len(results) = Len(pdb_files)
        /\ \A k \in 1..Len(results) : Cardinality(DOMAIN results[k]) = 1
        /\ \A j, k \in 1..Len(results) : j # k => DOMAIN results[j] # DOMAIN results[k]
        /\ Keys(results) = {pdb_files[k] : k \in 1..Len(pdb_files)}
        /\ {results[k] : k \in 1..Len(results)} = {Record(t) : t \in Submitted}
        /\ ~use_ray_wait => \A k \in 1..Len(results) : results[k] = Record(k)

\* C6 witness: two files collected incrementally in the order opposite to
\* their submission.
C6_Witness ==
    /\ output_file = "written"
    /\ use_ray_wait
    /\ Len(results) = 2
    /\ results[1] = Record(2)
    /\ results[2] = Record(1)

\* The input path is neither a directory nor an existing file with the
\* structure-file extension.
InvalidInput(p) ==
    /\ p.kind # "dir"
    /\ ~(p.kind = "file" /\ \A e \in p.entries : e.suffix = ".pdb")

\* C7: for an invalid input path the resolver raises, no task is submitted and
\* the output file is not written.
C7_InvalidInputAborts ==
    InvalidInput(input_path) =>
        /\ opc \in {"resolve", "uncaught"}
        /\ opc = "uncaught" => fatal_error = "ValueError" /\ exit_code = 1
        /\ tasks = <<>>
        /\ Submitted = {}
        /\ output_file = "absent"

\* C7 witness: the resolver has raised on a file without the extension.
C7_Witness ==
    /\ input_path.kind = "file"
    /\ input_path.entries = {TxtEntry}
    /\ opc = "uncaught"

\* C8: exit code 0 exactly when collection and serialization completed; an
\* exception escaping either is printed, logged at critical severity and ends
\* the process with exit code 1; the output file is opened only after the
\* results of all submitted tasks were collected.
C8_ExitCodes ==
    /\ exit_code = 0 <=> (opc = "exit" /\ fatal_error = "none")
    /\ exit_code = 0 => output_file = "written" /\ Len(results) = Len(pdb_files)
    /\ (opc = "exit" /\ fatal_error \in {"RayTaskError", "SerializationError"}) =>
           /\ exit_code = 1
           /\ printed = "error"
           /\ critical_logged
    /\ critical_logged => exit_code = 1
    /\ output_file # "absent" =>
           /\ Len(results) = Len(pdb_files)
           /\ \A t \in Submitted : tpc[t] = "returned"
           /\ use_ray_wait => tasks = <<>>

\* C8 witness: serialization failed after collection and the process ended
\* with exit code 1.
C8_Witness ==
    /\ opc = "exit"
    /\ fatal_error = "SerializationError"
    /\ exit_code = 1
    /\ Len(results) = 2

\* The tasks whose record is in results.
Collected == {t \in Submitted : \E k \in 1..Len(results) : results[k] = Record(t)}

Pending == {tasks[k] : k \in 1..Len(tasks)}

AllReturned == \A t \in Submitted : tpc[t] = "returned"

\* One iteration of the wait loop takes exactly one finished task out of the
\* pending list and adds at most its record to results.
WaitIteration ==
    (opc = "collect" /\ use_ray_wait /\ <<tasks, results>>' # <<tasks, results>>) =>
        \E k \in 1..Len(tasks) :
            /\ Finished(tasks[k])
            /\ tasks' = Remove(tasks, k)
            /\ \/ results' = Append(results, Record(tasks[k]))
               \/ results' = results /\ tpc[tasks[k]] = "raised"

\* While the wait loop runs, pending and collected tasks partition the
\* submitted ones and no record is in results twice; when it has ended
\* normally nothing is pending and every task was collected.
WaitBookkeeping ==
    use_ray_wait =>
        /\ Cardinality(Pending) = Len(tasks)
        /\ Cardinality(Collected) = Len(results)
        /\ Pending \cap Collected = {}
        /\ opc = "collect" => Pending \cup Collected = Submitted
        /\ opc = "dump" => tasks = <<>> /\ Collected = Submitted

\* C9: in wait mode each loop iteration retrieves one completed task and
\* removes it from the pending set, every task is collected exactly once, and
\* once every task has returned the loop ends with nothing pending.
C9_WaitLoopTerminates ==
    /\ [][WaitIteration]_vars
    /\ []WaitBookkeeping
    /\ (use_ray_wait /\ opc = "collect" /\ AllReturned)
          ~> (opc = "dump" /\ tasks = <<>> /\ Len(results) = Len(pdb_files))

\* C9 witness: the wait loop has ended with both tasks collected.
C9_Witness ==
    /\ use_ray_wait
    /\ opc = "dump"
    /\ tasks = <<>>
    /\ Len(results) = 2

\* C10: the cleanup of a repeat deletes only artifacts that the same task
\* created in the same repeat iteration.
C10_CleanupDeletesOwnArtifacts ==
    [][\A t \in TaskIds :
          (tpc[t] = "remove" /\ tpc'[t] # "remove" /\ disk' # disk) =>
              disk[File(t)] = Owner(t, iter[t])]_vars

====
